---- MODULE Spec2Model ----
(***************************************************************************)
(* openSenseMap API (app.js): measurement ingestion over HTTP, the         *)
(* streamed exports getData / getDataMulti, the box operations that touch  *)
(* the measurement store (updateBox, deleteBox), the middleware in front   *)
(* of the routes, the routes that read boxes, and the connection manager   *)
(* of the boxes' MQTT brokers.                                             *)
(*                                                                         *)
(* The server is modelled with one request in flight.  A handler is cut    *)
(* into one action per synchronous stretch of JavaScript: the code up to   *)
(* the first store call, then each promise callback, then each step of the *)
(* cursor | transformer | stringifier | res pipe chain.                    *)
(*                                                                         *)
(* Time is counted in hours.  lib/models, lib/utils and lib/decoding are   *)
(* not part of the sources at hand; what the handlers call in them is      *)
(* modelled from the specification.                                        *)
(***************************************************************************)
EXTENDS Integers, Sequences, FiniteSets, Bags, TLC

VARIABLES
    boxes,         \* Box collection: box id -> [name, coordinates, mqtt, sensors]
    measurements,  \* Measurement collection: a bag of [sensor_id, value, createdAt]
    req,           \* the request in flight (or the last one served)
    pc,            \* where its handler stands
    responses,     \* the calls the handler made to res.send / next(err), in order
    storeOps,      \* the store calls the handler made, in order
    pipe,          \* the export's pipe chain (cursor, buffers, response stream)
    ingested,      \* number of measurements accepted since start (bounds the model)
    actors         \* connection manager: box id -> the actor of its broker connection

vars == <<boxes, measurements, req, pc, responses, storeOps, pipe, ingested, actors>>

----------------------------------------------------------------------------
(* Bounds of the model *)

\* measurements accepted over one behaviour
MaxIngest == 1
\* entries of one bulk payload
MaxBatch == 2
\* records the transformer and the stringifier hold once res stops reading
PipeBuffer == 2
\* the server clock, in hours
Now == 1000
\* consecutive connect failures of one actor
MaxFailures == 2
\* messages the brokers deliver over one behaviour
MaxMessages == 2

----------------------------------------------------------------------------
(* Program constants *)

\* getData: var queryLimit = 10000
queryLimit == 10000
\* .cursor({ batchSize: 500 })
batchSize == 500
\* getData: toDate.clone().subtract(48, 'hours')
DefaultWindowSingle == 48
\* getDataMulti: toDate.clone().subtract(15, 'days'), in hours
DefaultWindowMulti == 360
\* "The maximum time frame is 1 month" (31 days), in hours
MaxSpanHours == 744

GET_DATA_MULTI_DEFAULT_COLUMNS == <<"createdAt", "value", "lat", "lng">>
GET_DATA_MULTI_ALLOWED_COLUMNS ==
    {"createdAt", "value", "lat", "lng", "unit", "boxId", "sensorId",
     "phenomenon", "sensorType", "boxName"}

----------------------------------------------------------------------------
(* Values *)

Min(a, b) == IF a <= b THEN a ELSE b

\* A time parameter of a request: not given, given and unparseable, or an instant.
NoTime == [kind |-> "absent", t |-> 0]
BadTime == [kind |-> "invalid", t |-> 0]
At(t) == [kind |-> "time", t |-> t]

\* The instants requests and records use: outside the maximum span, at the
\* single-sensor default window, just before now, now.
Instants == {Now - MaxSpanHours - 1, Now - DefaultWindowSingle, Now - 1, Now}

\* A broker configuration (url, topic); NoMqtt is the empty object {}.
NoMqtt == [url |-> "undefined", topic |-> "undefined"]
MqttA == [url |-> "mqtt://a", topic |-> "alpha"]
MqttB == [url |-> "mqtt://b", topic |-> "alpha"]
MqttC == [url |-> "mqtt://a", topic |-> "beta"]

BoxIds == {"b1", "b2"}
UnknownBox == "b9"
UnknownSensor == "s9"

\* The boxes registered when the server starts.  coordinates is
\* loc[0].geometry.coordinates, a GeoJSON position [lng, lat].
InitBoxes ==
    [b \in BoxIds |->
        IF b = "b1"
        THEN [name |-> "Alpha", coordinates |-> <<8, 50>>, mqtt |-> NoMqtt,
              sensors |-> [s \in {"s1", "s3"} |->
                  IF s = "s1"
                  THEN [title |-> "Temperatur", unit |-> "C", sensorType |-> "HDC1008"]
                  ELSE [title |-> "Luftdruck", unit |-> "hPa", sensorType |-> "BMP280"]]]
        ELSE [name |-> "Beta", coordinates |-> <<13, 52>>, mqtt |-> MqttC,
              sensors |-> [s \in {"s2"} |->
                  [title |-> "Temperatur", unit |-> "K", sensorType |-> "DHT22"]]]]

SensorIds == {"s1", "s2", "s3"}

Measurement_(s, v, t) == [sensor_id |-> s, value |-> v, createdAt |-> t]

\* The measurements stored when the server starts.
InitMeasurements ==
    SetToBag({Measurement_("s1", "23.5", Now - 1),
              Measurement_("s2", "10", Now - 1),
              Measurement_("s1", "7", Now - DefaultWindowSingle)})

NoReq == [kind |-> "none"]
NoPipe == [kind |-> "none"]

Resp(status, body) == [status |-> status, body |-> body]

IsError(r) == r.status >= 400

----------------------------------------------------------------------------
(* lib/decoding and the ingestion sink of lib/models *)

\* A decoded payload, or the decoder's throw.
DecodeError == [ok |-> FALSE, measurements |-> <<>>]

\* decodeHandlers[...].decodeMessage.  A payload is a sequence of entries, an
\* entry the sequence of its fields: sensor, value and an optional timestamp (a
\* CSV row, or an object of the JSON array).  One entry with fewer than two
\* fields makes the decoder throw for the whole payload.
decodeMessage(body) ==
    IF \E i \in 1..Len(body) : Len(body[i]) < 2
    THEN DecodeError
    ELSE [ok |-> TRUE,
          measurements |->
              [i \in 1..Len(body) |->
                  [sensor_id |-> body[i][1],
                   value |-> body[i][2],
                   createdAt |-> IF Len(body[i]) >= 3 THEN body[i][3] ELSE NoTime]]]

\* createdAt as stored: the given instant, or the server clock when it is
\* missing or unparseable.
StoredInstant(createdAt) == IF createdAt.kind = "time" THEN createdAt.t ELSE Now

StoredRecord(m) == Measurement_(m.sensor_id, m.value, StoredInstant(m.createdAt))

\* The measurements of a decoded list that belong to a sensor of the box.
RECURSIVE Accepted(_, _)
Accepted(box, ms) ==
    IF ms = <<>> THEN <<>>
    ELSE IF Head(ms).sensor_id \in DOMAIN box.sensors
         THEN <<Head(ms)>> \o Accepted(box, Tail(ms))
         ELSE Accepted(box, Tail(ms))

RECURSIVE BagOfRecords(_)
BagOfRecords(ms) ==
    IF ms = <<>> THEN EmptyBag
    ELSE SetToBag({StoredRecord(Head(ms))}) (+) BagOfRecords(Tail(ms))

\* box.saveMeasurement(m): the measurement of a sensor of the box is appended;
\* one for an unknown sensor rejects the promise.
saveMeasurementAccepts(box, m) == m.sensor_id \in DOMAIN box.sensors

\* box.saveMeasurementsArray(ms): the entries of the box's sensors are appended
\* in one write, the others are skipped; the promise resolves either way.
saveMeasurementsArrayStored(box, ms) == BagOfRecords(Accepted(box, ms))

----------------------------------------------------------------------------
(* Requests *)

\* The steps a pipe chain can make.
CanFetch ==
    /\ pipe.kind # "none"
    /\ pipe.cursor = "open"
    /\ pipe.pushed = pipe.fetched
    /\ (pipe.sink = "open" \/ pipe.pushed - pipe.written < PipeBuffer)

CanFill ==
    /\ pipe.kind # "none"
    /\ pipe.sink = "closed"
    /\ pipe.pushed < pipe.fetched
    /\ pipe.pushed - pipe.written < PipeBuffer

CanFlow ==
    /\ pipe.kind # "none"
    /\ pipe.sink = "open"
    /\ pipe.written < pipe.fetched

CanEnd ==
    /\ pipe.kind # "none"
    /\ pipe.sink = "open"
    /\ pipe.cursor = "exhausted"
    /\ pipe.written = pipe.fetched

Stalled == pc = "streaming" /\ ~CanFetch /\ ~CanFill /\ ~CanFlow /\ ~CanEnd

\* A new request is taken when none is in flight.
Idle == pc = "idle"

\* The request in flight is over once its handler has finished, or once its
\* pipe chain can make no further step; the server then takes the next one.
Release ==
    /\ pc = "done" \/ Stalled
    /\ req' = NoReq
    /\ pc' = "idle"
    /\ responses' = <<>>
    /\ storeOps' = <<>>
    /\ pipe' = NoPipe
    /\ UNCHANGED <<boxes, actors, measurements, ingested>>

Begin(r, nextpc, sent, ops) ==
    /\ req' = r
    /\ pc' = nextpc
    /\ responses' = sent
    /\ storeOps' = ops
    /\ pipe' = NoPipe

Values == {"23.5"}

----------------------------------------------------------------------------
(* postNewMeasurement: POST /boxes/:boxId/:sensorId *)

\* try { measurements = handler.decodeMessage(...) }
\* catch (err) { return next(new restify.UnprocessableEntityError(err.message)); }
DecodeThrowIgnored(decoded) == FALSE
DecodeThrows(decoded) == ~decoded.ok

\* The synchronous part: decode [{sensor_id, value, createdAt}] with the JSON
\* handler; a throw ends the request with UnprocessableEntity, otherwise
\* Box.findOne is issued.  A request without a value has a one-field entry.
PostNewMeasurement ==
    /\ Idle
    /\ ingested < MaxIngest
    /\ \E boxId \in {"b1", UnknownBox}, sensorId \in {"s1", UnknownSensor},
          fields \in {<<>>} \cup {<<v>> : v \in Values}
                     \cup {<<v, c>> : v \in Values, c \in {At(Now - 1), BadTime}} :
        LET body == << <<sensorId>> \o fields >>
            decoded == decodeMessage(body)
            r == [kind |-> "postNewMeasurement", boxId |-> boxId, body |-> body,
                  decoded |-> decoded, before |-> measurements,
                  boxFound |-> FALSE, saved |-> FALSE]
        IN  IF DecodeThrows(decoded)
            THEN Begin(r, "done", <<Resp(422, "UnprocessableEntity")>>, <<>>)
            ELSE Begin(r, "pnm_findOne", <<>>, <<"Box.findOne">>)
    /\ UNCHANGED <<boxes, actors, measurements, ingested>>

\* A res.send on a response that next(err) has already answered: the call may
\* throw inside the promise callback (the chain's catch runs) or pass.
SendAfter(sent, donepc, catchpc) ==
    IF sent = <<>> THEN {donepc} ELSE {donepc, catchpc}

\* .then(function (box) {...}): without a box next(NotFoundError) is called and
\* the callback returns its result, which resolves the promise: the chain goes
\* on to the second then.  With a box, box.saveMeasurement(measurements[0]).
PostNewMeasurementThen ==
    /\ pc = "pnm_findOne"
    /\ \/ /\ req.boxId \notin DOMAIN boxes
          /\ responses' = Append(responses, Resp(404, "NotFound"))
          /\ pc' = "pnm_saved"
          /\ UNCHANGED <<req, storeOps, measurements, ingested>>
       \/ /\ req.boxId \in DOMAIN boxes
          /\ storeOps' = Append(storeOps, "saveMeasurement")
          /\ \/ /\ saveMeasurementAccepts(boxes[req.boxId], req.decoded.measurements[1])
                /\ measurements' =
                       measurements (+) BagOfRecords(req.decoded.measurements)
                /\ ingested' = ingested + 1
                /\ req' = [req EXCEPT !.boxFound = TRUE, !.saved = TRUE]
                /\ pc' = "pnm_saved"
             \/ \* the save rejects: unknown sensor, or the store fails
                /\ req' = [req EXCEPT !.boxFound = TRUE]
                /\ pc' = "pnm_failed"
                /\ UNCHANGED <<measurements, ingested>>
          /\ UNCHANGED responses
    /\ UNCHANGED <<boxes, actors, pipe>>

\* .then(function () { res.send(201, 'Measurement saved in box'); })
PostNewMeasurementSaved ==
    /\ pc = "pnm_saved"
    /\ responses' = Append(responses, Resp(201, "Measurement saved in box"))
    /\ pc' \in SendAfter(responses, "done", "pnm_failed")
    /\ UNCHANGED <<boxes, actors, measurements, req, storeOps, pipe, ingested>>

\* .catch(function (err) { return next(new UnprocessableEntityError(...)); })
PostNewMeasurementCatch ==
    /\ pc = "pnm_failed"
    /\ responses' = Append(responses, Resp(422, "UnprocessableEntity"))
    /\ pc' = "done"
    /\ UNCHANGED <<boxes, actors, measurements, req, storeOps, pipe, ingested>>

----------------------------------------------------------------------------
(* postNewMeasurements: POST /boxes/:boxId/data *)

\* The entries a bulk payload is made of: well-formed ones for a sensor of the
\* box and for an unknown sensor, and a row of one field.
Entries ==
    {<<"s1", "23.5">>, <<"s1", "23.5", At(Now - 1)>>,
     <<UnknownSensor, "23.5">>, <<"s1">>}

RECURSIVE SeqsUpTo(_, _)
SeqsUpTo(S, n) ==
    IF n = 0 THEN {<<>>}
    ELSE SeqsUpTo(S, n - 1)
         \cup {Append(q, x) : q \in {p \in SeqsUpTo(S, n - 1) : Len(p) = n - 1}, x \in S}

\* decodeHandlers[req.contentType().toLowerCase()]: the registered decoders.
decodeHandlers == {"application/json", "text/csv"}

\* String.prototype.toLowerCase() on the content types requests use.
ToLowerCase(contentType) ==
    IF contentType = "Text/CSV" THEN "text/csv" ELSE contentType

\* let handler = decodeHandlers[req.contentType().toLowerCase()]; if (handler)
HandlerLookupExact(contentType) == contentType \in decodeHandlers
HandlerLookup(contentType) == ToLowerCase(contentType) \in decodeHandlers

\* The requests tried: every box and payload with the content types in lower
\* case, one payload with a content type in capitals.
PostNewMeasurementsParams ==
    {p \in {"b1", UnknownBox} \X (decodeHandlers \cup {"text/plain", "Text/CSV"})
              \X SeqsUpTo(Entries, MaxBatch) :
        p[2] # "Text/CSV" \/ (p[1] = "b1" /\ p[3] = <<<<"s1", "23.5">>>>)}

\* The synchronous part: look the handler up by content type, decode the body,
\* issue Box.findOne.
PostNewMeasurements ==
    /\ Idle
    /\ ingested < MaxIngest
    /\ \E p \in PostNewMeasurementsParams :
        LET boxId == p[1]
            contentType == p[2]
            body == p[3]
            known == HandlerLookup(contentType)
            decoded == IF known THEN decodeMessage(body) ELSE DecodeError
            r == [kind |-> "postNewMeasurements", boxId |-> boxId,
                  contentType |-> contentType, body |-> body, decoded |-> decoded,
                  decodeCalled |-> known,
                  before |-> measurements, boxFound |-> FALSE, saved |-> FALSE]
        IN  IF ~known
            THEN Begin(r, "done", <<Resp(415, "UnsupportedMediaType")>>, <<>>)
            ELSE IF DecodeThrows(decoded)
            THEN Begin(r, "done", <<Resp(422, "UnprocessableEntity")>>, <<>>)
            ELSE Begin(r, "pnms_findOne", <<>>, <<"Box.findOne">>)
    /\ UNCHANGED <<boxes, actors, measurements, ingested>>

\* return box.saveMeasurementsArray(measurements)
PostNewMeasurementsSaveFirst(box, ms) ==
    saveMeasurementsArrayStored(box, SubSeq(ms, 1, Min(1, Len(ms))))
PostNewMeasurementsSave(box, ms) == saveMeasurementsArrayStored(box, ms)

\* .then(function (box) {...}): next(NotFoundError) without a box, else
\* box.saveMeasurementsArray(measurements).
PostNewMeasurementsThen ==
    /\ pc = "pnms_findOne"
    /\ \/ /\ req.boxId \notin DOMAIN boxes
          /\ responses' = Append(responses, Resp(404, "NotFound"))
          /\ pc' = "pnms_saved"
          /\ UNCHANGED <<req, storeOps, measurements, ingested>>
       \/ /\ req.boxId \in DOMAIN boxes
          /\ storeOps' = Append(storeOps, "saveMeasurementsArray")
          /\ \/ LET stored == PostNewMeasurementsSave(boxes[req.boxId],
                                                      req.decoded.measurements)
                IN  /\ measurements' = measurements (+) stored
                    /\ ingested' = ingested + BagCardinality(stored)
                    /\ req' = [req EXCEPT !.boxFound = TRUE, !.saved = TRUE]
                    /\ pc' = "pnms_saved"
             \/ \* the store fails: nothing is written
                /\ req' = [req EXCEPT !.boxFound = TRUE]
                /\ pc' = "pnms_failed"
                /\ UNCHANGED <<measurements, ingested>>
          /\ UNCHANGED responses
    /\ UNCHANGED <<boxes, actors, pipe>>

\* .then(function () { res.send(201, 'Measurements saved in box'); })
PostNewMeasurementsSaved ==
    /\ pc = "pnms_saved"
    /\ responses' = Append(responses, Resp(201, "Measurements saved in box"))
    /\ pc' \in SendAfter(responses, "done", "pnms_failed")
    /\ UNCHANGED <<boxes, actors, measurements, req, storeOps, pipe, ingested>>

\* .catch(function (err) { return next(new UnprocessableEntityError(...)); })
PostNewMeasurementsCatch ==
    /\ pc = "pnms_failed"
    /\ responses' = Append(responses, Resp(422, "UnprocessableEntity"))
    /\ pc' = "done"
    /\ UNCHANGED <<boxes, actors, measurements, req, storeOps, pipe, ingested>>

----------------------------------------------------------------------------
(* Query parameters of the exports *)

Undefined == "undefined"

TimeParams == {NoTime, BadTime} \cup {At(t) : t \in Instants}

\* The (from-date, to-date) pairs requests use: the defaults, a range with
\* records on both ends, one end given, from after to, a span over the
\* maximum, an unparseable end.
TimeRanges ==
    {<<NoTime, NoTime>>,
     <<At(Now - DefaultWindowSingle), At(Now - 1)>>,
     <<NoTime, At(Now - 1)>>,
     <<At(Now - DefaultWindowSingle), NoTime>>,
     <<At(Now), At(Now - 1)>>,
     <<At(Now - MaxSpanHours - 1), At(Now)>>,
     <<BadTime, NoTime>>,
     <<NoTime, BadTime>>}

\* utils.parseTimeParameter(req, next, name, default): the default when the
\* parameter is not given, the parsed instant, or an error for an unparseable one.
parseTimeParameter(param, default) ==
    IF param.kind = "absent" THEN At(default) ELSE param

\* utils.validateTimeParameters(toDate, fromDate): an error unless
\* fromDate <= toDate and the span is within the maximum.
validateTimeParameters(toDate, fromDate) ==
    /\ fromDate <= toDate
    /\ toDate - fromDate <= MaxSpanHours

\* var timesValid = utils.validateTimeParameters(toDate, fromDate)
TimesValidSwapped(toDate, fromDate) == validateTimeParameters(fromDate, toDate)
TimesValid(toDate, fromDate) == validateTimeParameters(toDate, fromDate)

\* String.prototype.trim().toLowerCase() on the format values requests use.
TrimLower(f) ==
    CASE f = " CSV " -> "csv"
      [] f = " " -> ""
      [] OTHER -> f

\* toDate.clone().subtract(48, 'hours'), toDate.clone().subtract(15, 'days'):
\* the default of from-date, counted back from the to-date of the request.
DefaultFromNow(toDate, window) == Now - window
DefaultFrom(toDate, window) == toDate - window

\* The format parameter: absent, blank, json, csv in capitals within spaces,
\* and a format no export has.
FormatParams == {Undefined, " ", "json", " CSV ", "xml"}

\* getFormat(req, allowed_formats, default_format): Undefined stands for the
\* function returning nothing.
getFormatExact(format, allowed_formats, default_format) ==
    IF format = Undefined THEN default_format
    ELSE IF format \in allowed_formats THEN format
    ELSE Undefined
getFormat(format, allowed_formats, default_format) ==
    IF format = Undefined \/ TrimLower(format) = "" THEN default_format
    ELSE IF TrimLower(format) \in allowed_formats THEN TrimLower(format)
    ELSE Undefined

----------------------------------------------------------------------------
(* Store queries and cursors *)

\* Measurement.find: the records among the stored ones that a query selects,
\* with their counts.
Find(bag, selected) == [r \in selected |-> bag[r]]

RECURSIVE Perms(_)
Perms(S) ==
    IF S = {} THEN {<<>>}
    ELSE UNION {{<<x>> \o p : p \in Perms(S \ {x})} : x \in S}

\* The orders in which a cursor may return a result: the query states no sort.
\* A result is a sequence of runs [rec, n]: n copies of rec in a row.
Results(bag) ==
    {[i \in 1..Len(order) |-> [rec |-> order[i], n |-> bag[order[i]]]] :
        order \in Perms(DOMAIN bag)}

RECURSIVE Total(_)
Total(result) ==
    IF result = <<>> THEN 0 ELSE Head(result).n + Total(Tail(result))

\* The first k records of a result.
RECURSIVE Take(_, _)
Take(result, k) ==
    IF k <= 0 \/ result = <<>> THEN <<>>
    ELSE IF Head(result).n <= k
         THEN <<Head(result)>> \o Take(Tail(result), k - Head(result).n)
         ELSE <<[rec |-> Head(result).rec, n |-> k]>>

\* getData: { sensor_id: sensorId, createdAt: { $gte: fromDate, $lte: toDate } }
GetDataQuery(sensorId, fromDate, toDate, rec) ==
    /\ rec.sensor_id = sensorId
    /\ rec.createdAt >= fromDate
    /\ rec.createdAt <= toDate

\* Measurement.find(qry, ...).limit(queryLimit)
GetDataLimitNone(result) == result
GetDataLimit(result) == Take(result, queryLimit)

\* getDataMulti: { sensor_id: { $in: Object.keys(sensors) },
\*                 createdAt: { $gt: fromDate, $lt: toDate } }; no limit
GetDataMultiQuery(sensorIds, fromDate, toDate, rec) ==
    /\ rec.sensor_id \in sensorIds
    /\ rec.createdAt > fromDate
    /\ rec.createdAt < toDate

GetDataMultiLimitCapped(result) == Take(result, queryLimit)
GetDataMultiLimit(result) == result

\* res.header('Content-Type', ...) next to the choice of the stringifier.
ContentType(format) ==
    IF format = "csv" THEN "text/csv" ELSE "application/json; charset=utf-8"

NewPipe(kind, result, columns, lookup, format) ==
    [kind |-> kind, result |-> result, columns |-> columns, lookup |-> lookup,
     format |-> format,
     contentType |-> ContentType(format),
     cursor |-> "open",  \* open, exhausted (the store has returned it all), failed
     sink |-> "open",    \* res: open, ended (res.end), closed (the consumer left)
     fetched |-> 0,      \* records the cursor has fetched from the store
     pushed |-> 0,       \* records the cursor has handed to the transformer
     written |-> 0,      \* records written to res
     header |-> FALSE]   \* the CSV header row or the opening [ is written

----------------------------------------------------------------------------
(* getData: GET /boxes/:boxId/data/:sensorId *)

InvalidArgument == Resp(409, "InvalidArgument")

\* The requests tried: every sensor and range without a format and with csv,
\* every format with the default range.
GetDataParams ==
    {p \in {"s1", UnknownSensor} \X TimeRanges \X FormatParams :
        p[3] \in {Undefined, " CSV "} \/ (p[1] = "s1" /\ p[2] = <<NoTime, NoTime>>)}

\* The handler up to the pipe chain: the time parameters, the format, then
\* Measurement.find(qry).limit(queryLimit).lean().cursor({ batchSize: 500 })
\* piped into the transformer, the stringifier and res.
GetData ==
    /\ Idle
    /\ \E p \in GetDataParams :
        LET sensorId == p[1]
            range == p[2]
            format == p[3]
            from == range[1]
            to == range[2]
            toDate == parseTimeParameter(to, Now)
            fromDate == parseTimeParameter(from, DefaultFrom(toDate.t, DefaultWindowSingle))
            r == [kind |-> "getData", sensorId |-> sensorId, to |-> to,
                  from |-> from, toDate |-> toDate, fromDate |-> fromDate,
                  format |-> format, before |-> measurements]
            fmt == getFormat(format, {"json", "csv"}, "json")
        IN  IF toDate.kind # "time" \/ fromDate.kind # "time"
            THEN Begin(r, "done", <<InvalidArgument>>, <<>>)
            ELSE IF ~TimesValid(toDate.t, fromDate.t)
            THEN Begin(r, "done", <<InvalidArgument>>, <<>>)
            ELSE IF fmt = Undefined
            THEN Begin(r, "done", <<InvalidArgument>>, <<>>)
            ELSE \E result \in Results(Find(measurements,
                        {rec \in DOMAIN measurements :
                            GetDataQuery(sensorId, fromDate.t, toDate.t, rec)})) :
                    /\ req' = r
                    /\ pc' = "streaming"
                    /\ responses' = <<>>
                    /\ storeOps' = <<"Measurement.find">>
                    /\ pipe' = NewPipe("single", GetDataLimit(result),
                                       <<"createdAt", "value">>, <<>>, fmt)
    /\ UNCHANGED <<boxes, actors, measurements, ingested>>

----------------------------------------------------------------------------
(* getDataMulti: GET, POST /boxes/data *)

ColumnParams ==
    {<<>>,
     <<"createdAt", "value", "boxName", "boxId">>,
     <<"sensorId", "lat", "lng", "unit", "sensorType", "phenomenon">>,
     <<"value", "height">>}

\* columns.some(c => !GET_DATA_MULTI_ALLOWED_COLUMNS.includes(c))
IllegalColumnsNone(columns) == FALSE
IllegalColumns(columns) ==
    \E i \in 1..Len(columns) : columns[i] \notin GET_DATA_MULTI_ALLOWED_COLUMNS

\* The requests tried: all without a format, and a format with the default
\* range and columns.
GetDataMultiParams ==
    {p \in {{}, {"b1"}, {"b1", "b2"}} \X {Undefined, "Temperatur"} \X TimeRanges
              \X ColumnParams \X {Undefined, "json"} :
        p[5] = Undefined \/ (p[3] = <<NoTime, NoTime>> /\ p[4] = <<>>)}

\* The handler up to Box.find: the time parameters, then phenomenon and boxId.
\* The handler never reads the format parameter.
GetDataMulti ==
    /\ Idle
    /\ \E p \in GetDataMultiParams :
        LET boxIds == p[1]
            phenomenon == p[2]
            range == p[3]
            columns == p[4]
            format == p[5]
            from == range[1]
            to == range[2]
            toDate == parseTimeParameter(to, Now)
            fromDate == parseTimeParameter(from, DefaultFrom(toDate.t, DefaultWindowMulti))
            r == [kind |-> "getDataMulti", boxIds |-> boxIds,
                  phenomenon |-> phenomenon, to |-> to, from |-> from,
                  format |-> format,
                  toDate |-> toDate, fromDate |-> fromDate,
                  columns |-> columns, before |-> measurements]
        IN  IF toDate.kind # "time" \/ fromDate.kind # "time"
            THEN Begin(r, "done", <<InvalidArgument>>, <<>>)
            ELSE IF ~TimesValid(toDate.t, fromDate.t)
            THEN Begin(r, "done", <<InvalidArgument>>, <<>>)
            ELSE IF phenomenon = Undefined \/ boxIds = {}
            THEN Begin(r, "done", <<InvalidArgument>>, <<>>)
            ELSE Begin(r, "gdm_find", <<>>, <<"Box.find">>)
    /\ UNCHANGED <<boxes, actors, measurements, ingested>>

\* The lookup table built from boxData: one entry per sensor whose title is the
\* phenomenon, carrying its box's name, id and coordinates.
SensorsLookupOf(bs, boxIds, phenom) ==
    LET found == {b \in DOMAIN bs \cap boxIds :
                     \E s \in DOMAIN bs[b].sensors : bs[b].sensors[s].title = phenom}
        keys == {s \in SensorIds : \E b \in found :
                     s \in DOMAIN bs[b].sensors /\ bs[b].sensors[s].title = phenom}
        boxOf(s) == CHOOSE b \in found : s \in DOMAIN bs[b].sensors
    IN  [s \in keys |->
            [lat |-> bs[boxOf(s)].coordinates[1],
             lng |-> bs[boxOf(s)].coordinates[2],
             boxId |-> boxOf(s),
             boxName |-> bs[boxOf(s)].name,
             sensorId |-> s,
             phenomenon |-> bs[boxOf(s)].sensors[s].title,
             title |-> bs[boxOf(s)].sensors[s].title,
             unit |-> bs[boxOf(s)].sensors[s].unit,
             sensorType |-> bs[boxOf(s)].sensors[s].sensorType]]

SensorsLookup(boxIds, phenom) == SensorsLookupOf(boxes, boxIds, phenom)

\* .then(function (boxData) {...}): the lookup table, the columns, then the
\* measurement cursor piped into the transformer, the stringifier and res.
GetDataMultiThen ==
    /\ pc = "gdm_find"
    /\ LET sensors == SensorsLookup(req.boxIds, req.phenomenon)
           columns == IF req.columns # <<>> THEN req.columns
                      ELSE GET_DATA_MULTI_DEFAULT_COLUMNS
       IN  IF req.columns # <<>> /\ IllegalColumns(columns)
           THEN /\ responses' = Append(responses, Resp(422, "UnprocessableEntity"))
                /\ pc' = "done"
                /\ UNCHANGED <<storeOps, pipe>>
           ELSE \E result \in Results(Find(measurements,
                       {rec \in DOMAIN measurements :
                           GetDataMultiQuery(DOMAIN sensors, req.fromDate.t,
                                             req.toDate.t, rec)})) :
                   /\ pc' = "streaming"
                   /\ storeOps' = Append(storeOps, "Measurement.find")
                   /\ pipe' = NewPipe("multi", GetDataMultiLimit(result), columns,
                                      sensors, "csv")
                   /\ UNCHANGED responses
    /\ UNCHANGED <<boxes, actors, measurements, req, ingested>>

\* .catch(function (err) {...}): Box.find failed.
GetDataMultiCatch ==
    /\ pc = "gdm_find"
    /\ responses' = Append(responses, Resp(500, "InternalServer"))
    /\ pc' = "done"
    /\ UNCHANGED <<boxes, actors, measurements, req, storeOps, pipe, ingested>>

----------------------------------------------------------------------------
(* The transformers: one record of the cursor to one row of the output *)

\* Date.prototype.toISOString / moment.toISOString: the instant as text.
ISO(t) == [iso |-> t]

Range(q) == {q[i] : i \in 1..Len(q)}

\* getData: data.createdAt = new Date(data.createdAt).toISOString()
TransformSingle(rec) == [createdAt |-> ISO(rec.createdAt), value |-> rec.value]

\* The stored values that are falsy in JavaScript: the empty string and the
\* number 0 (NumberZero stands for it among the strings the model uses for
\* values; the string "0" is another value, and truthy).
NumberZero == "0 as a number"
FalsyValues == {"", NumberZero}

\* getDataMulti: data.createdAt = utils.parseTimestamp(...).toISOString(), then
\*   for (let col of columns) if (!data[col]) data[col] = sensors[data.sensor_id][col]
\* The stringifier keeps the requested columns of the result.
TransformMulti(rec, columns, sensors) ==
    LET data == [createdAt |-> ISO(rec.createdAt), value |-> rec.value,
                 sensor_id |-> rec.sensor_id]
        falsy(col) == col \notin DOMAIN data
                        \/ (col = "value" /\ data[col] \in FalsyValues)
        sensor == sensors[rec.sensor_id]
    IN  [col \in Range(columns) |->
            IF ~falsy(col) THEN data[col]
            ELSE IF col \in DOMAIN sensor THEN sensor[col]
            ELSE Undefined]

\* The rows written to res so far, as runs [row, n].
RowsWritten ==
    LET recs == Take(pipe.result, pipe.written)
    IN  [i \in 1..Len(recs) |->
            [rec |-> recs[i].rec, n |-> recs[i].n,
             row |-> IF pipe.kind = "multi"
                     THEN TransformMulti(recs[i].rec, pipe.columns, pipe.lookup)
                     ELSE TransformSingle(recs[i].rec)]]

----------------------------------------------------------------------------
(* The pipe chain: cursor.pipe(transformer).pipe(stringifier).pipe(res) *)

\* The cursor reads the next batch from the store once the batch it holds has
\* been handed on.  The store closes the cursor with the batch that completes
\* the result.
CursorFetch ==
    /\ pc = "streaming"
    /\ CanFetch
    /\ LET n == Min(batchSize, Total(pipe.result) - pipe.fetched)
       IN  pipe' = [pipe EXCEPT
                      !.fetched = @ + n,
                      !.cursor = IF pipe.fetched + n = Total(pipe.result)
                                 THEN "exhausted" ELSE "open"]
    /\ UNCHANGED <<boxes, actors, measurements, req, pc, responses, storeOps, ingested>>

\* The batch runs through the transformer and the stringifier into res.
Flow ==
    /\ pc = "streaming"
    /\ CanFlow
    /\ pipe' = [pipe EXCEPT !.pushed = pipe.fetched, !.written = pipe.fetched,
                            !.header = TRUE]
    /\ UNCHANGED <<boxes, actors, measurements, req, pc, responses, storeOps, ingested>>

\* The cursor's end runs down the chain: pipe() ends the transformer, the
\* stringifier and res.
End ==
    /\ pc = "streaming"
    /\ CanEnd
    /\ pipe' = [pipe EXCEPT !.sink = "ended", !.header = TRUE]
    /\ pc' = "done"
    /\ UNCHANGED <<boxes, actors, measurements, req, responses, storeOps, ingested>>

\* How much of the batch at hand is written when the consumer leaves: none
\* of it, or all of it.
Offsets(avail) == {0, avail}

\* The consumer disconnects: res closes and the stringifier is unpiped from it.
\* The handler registers nothing for the close of res, and pipe() hands no
\* close upstream: the cursor is left as it is.
ConsumerDisconnectEffect(k) ==
    pipe' = [pipe EXCEPT !.written = @ + k, !.pushed = pipe.written + k,
                         !.header = @ \/ k > 0, !.sink = "closed"]

ConsumerDisconnect ==
    /\ pc = "streaming"
    /\ pipe.sink = "open"
    /\ \E k \in Offsets(pipe.fetched - pipe.written) : ConsumerDisconnectEffect(k)
    /\ UNCHANGED <<boxes, actors, measurements, req, pc, responses, storeOps, ingested>>

\* With res gone the transformer and the stringifier take records until their
\* buffers are full.
BufferFill ==
    /\ pc = "streaming"
    /\ CanFill
    /\ pipe' = [pipe EXCEPT !.pushed = Min(pipe.fetched, pipe.written + PipeBuffer)]
    /\ UNCHANGED <<boxes, actors, measurements, req, pc, responses, storeOps, ingested>>

\* A read of the cursor fails.  The handler listens for 'error' on the
\* transformer and on the stringifier only, and pipe() forwards no error: no
\* code of the handler ends res.  The cursor's 'error' has no listener and is
\* thrown; where the server's 'uncaughtException' handler gets it, that one
\* calls res.send(500, 'An error occured').
CursorError ==
    /\ pc = "streaming"
    /\ CanFetch
    /\ \/ /\ pipe' = [pipe EXCEPT !.cursor = "failed"]
          /\ UNCHANGED responses
       \/ /\ pipe' = [pipe EXCEPT !.cursor = "failed",
                                  !.sink = IF @ = "open" THEN "ended" ELSE @]
          /\ responses' = Append(responses, Resp(500, "An error occured"))
    /\ UNCHANGED <<boxes, actors, measurements, req, pc, storeOps, ingested>>

----------------------------------------------------------------------------
(* validateAuthenticationRequest: the middleware of the secured routes *)

\* The request carries no x-apikey header.
NoKey == "none"

\* User collection: apikey -> the user's boxes.
Users == [k \in {"k1", "k2"} |-> IF k = "k1" THEN {"b1"} ELSE {"b2"}]

\* The x-apikey header of a request and whether User.findOne fails: no key,
\* the key of the box's user, the key of another user, a key of no user.
AuthInputs ==
    {<<NoKey, FALSE>>, <<"k1", FALSE>>, <<"k2", FALSE>>, <<"k9", FALSE>>,
     <<"k1", TRUE>>, <<"k9", TRUE>>}

NotAuthorized == Resp(403, "NotAuthorized")
InternalServer == Resp(500, "InternalServer")
Passed == Resp(0, "next")

\* User.findOne({ apikey: ..., boxes: { $in: [ req.boxId ] } })
UserFindOneAnyBox(apikey, boxId) == apikey \in DOMAIN Users
UserFindOne(apikey, boxId) ==
    apikey \in DOMAIN Users /\ boxId \in Users[apikey]

\* What the middleware passes to next: nothing (the route's handler runs), or
\* the error that ends the request.
validateAuthenticationRequest(apikey, boxId, findFails) ==
    IF apikey # NoKey /\ boxId # Undefined
    THEN IF findFails THEN InternalServer
         ELSE IF UserFindOne(apikey, boxId) THEN Passed
         ELSE NotAuthorized
    ELSE NotAuthorized

\* The request ends in the middleware.
Rejected(r, error) ==
    /\ Begin(r, "done", <<error>>,
             IF r.apikey # NoKey THEN <<"User.findOne">> ELSE <<>>)
    /\ UNCHANGED <<boxes, actors, measurements>>

\* validApiKey: GET /users/:boxId.  With returnBox the box is sent, hidden
\* fields included.
ValidApiKey ==
    /\ Idle
    /\ \E auth \in AuthInputs, boxId \in BoxIds, returnBox \in BOOLEAN :
        LET passed == validateAuthenticationRequest(auth[1], boxId, auth[2])
            r == [kind |-> "validApiKey", boxId |-> boxId, apikey |-> auth[1],
                  findFails |-> auth[2], returnBox |-> returnBox]
        IN  IF passed # Passed THEN Rejected(r, passed)
            ELSE /\ IF ~returnBox
                    THEN Begin(r, "done", <<Resp(200, "ApiKey is valid")>>,
                               <<"User.findOne">>)
                    ELSE IF boxId \in DOMAIN boxes
                    THEN Begin(r, "done", <<Resp(200, "box")>>,
                               <<"User.findOne", "Box.findAndPopulateBoxById">>)
                    ELSE Begin(r, "done", <<Resp(404, "NotFound")>>,
                               <<"User.findOne", "Box.findAndPopulateBoxById">>)
                 /\ UNCHANGED <<boxes, actors, measurements>>
    /\ UNCHANGED ingested

\* getScript: GET /boxes/:boxId/script.  Without a box the callback throws and
\* the catch answers NotFound.
GetScript ==
    /\ Idle
    /\ \E auth \in AuthInputs, boxId \in BoxIds :
        LET passed == validateAuthenticationRequest(auth[1], boxId, auth[2])
            r == [kind |-> "getScript", boxId |-> boxId, apikey |-> auth[1],
                  findFails |-> auth[2]]
        IN  IF passed # Passed THEN Rejected(r, passed)
            ELSE /\ IF boxId \in DOMAIN boxes
                    THEN Begin(r, "done", <<Resp(200, "script")>>,
                               <<"User.findOne", "Box.findById">>)
                    ELSE Begin(r, "done", <<Resp(404, "NotFound")>>,
                               <<"User.findOne", "Box.findById">>)
                 /\ UNCHANGED <<boxes, actors, measurements>>
    /\ UNCHANGED ingested

----------------------------------------------------------------------------
(* validateIdParams: the middleware in front of every route *)

\* mongoose.Types.ObjectId.isValid: the ids of the model stand for 24 hex
\* digits, InvalidId for a string that is no ObjectId.
InvalidId == "zz"
ObjectIdIsValid(id) == id \in BoxIds \cup SensorIds \cup {UnknownBox, UnknownSensor}

BadRequest == Resp(400, "BadRequest")

\* The calls of next the middleware makes, in order: next(BadRequestError)
\* for an invalid box id, next(BadRequestError) for an invalid sensorId, and
\* then next() in every case, for no branch returns.
validateIdParams(boxIds, sensorId) ==
    (IF \E id \in boxIds : ~ObjectIdIsValid(id) THEN <<BadRequest>> ELSE <<>>)
        \o (IF sensorId # Undefined /\ ~ObjectIdIsValid(sensorId)
            THEN <<BadRequest>> ELSE <<>>)
        \o <<Passed>>

\* The requests with an id that is no ObjectId: (route, box ids, sensorId).
InvalidIdParams ==
    {<<"findBox", {InvalidId}, Undefined>>,
     <<"getData", {"b1"}, InvalidId>>,
     <<"getData", {InvalidId}, InvalidId>>,
     <<"getDataMulti", {"b1", InvalidId}, Undefined>>}

\* A request with an invalid id.  The first next(err) sends the error.  What
\* the later calls of next do is the server library's business: it either
\* ignores them, or goes on with the chain, so that the route's handler runs
\* with the invalid id and the later errors are sent after the first.
InvalidIdRequest ==
    /\ Idle
    /\ \E p \in InvalidIdParams, goesOn \in BOOLEAN :
        LET calls == validateIdParams(p[2], p[3])
            errors == SelectSeq(calls, LAMBDA c : c # Passed)
            r == [kind |-> "invalidId", route |-> p[1], boxIds |-> p[2],
                  sensorId |-> p[3], nextCalls |-> calls,
                  handlerRan |-> goesOn]
        IN  IF ~goesOn
            THEN Begin(r, "done", <<errors[1]>>, <<>>)
            ELSE Begin(r, "done", errors, <<p[1]>>)
    /\ UNCHANGED <<boxes, actors, measurements, ingested>>

----------------------------------------------------------------------------
(* findBox, findAllBoxes, getMeasurements: the routes that read boxes without *)
(* a key                                                                      *)

\* box.mqtt = undefined: the object sent has no mqtt.
HideMqttNot(box) == box
HideMqtt(box) == [f \in DOMAIN box \ {"mqtt"} |-> box[f]]

\* var lat = tmp.loc[0].geometry.coordinates[1];
\* var lng = tmp.loc[0].geometry.coordinates[0];
LatLng(o) == [lat |-> o.coordinates[2], lng |-> o.coordinates[1]]

\* GeoJSON.parse(..., {Point: ['lat', 'lng']}): lat and lng become the
\* geometry, a position [lng, lat]; the other fields the properties.
GeoJSONParse(o) ==
    [geometry |-> <<LatLng(o).lng, LatLng(o).lat>>,
     properties |-> [f \in DOMAIN o \ {"coordinates"} |-> o[f]]]

\* What findBox hands to res.send for a box of the store bs.
FindBoxSent(bs, boxId, format) ==
    IF format = "json" THEN HideMqtt(bs[boxId])
    ELSE GeoJSONParse(HideMqtt(bs[boxId]))

\* The requests tried: (box, format, the store fails).
FindBoxParams ==
    {p \in (BoxIds \cup {UnknownBox}) \X {Undefined, "geojson", "xml"} \X BOOLEAN :
        (p[2] = "xml" \/ p[3]) => (p[1] = "b1" /\ ~(p[2] = "xml" /\ p[3]))}

NotFound == Resp(404, "NotFound")

\* findBox: GET /boxes/:boxId
FindBox ==
    /\ Idle
    /\ \E p \in FindBoxParams :
        LET boxId == p[1]
            format == getFormat(p[2], {"json", "geojson"}, "json")
            r == [kind |-> "findBox", boxId |-> boxId, format |-> p[2],
                  sent |-> <<>>]
            ops == <<"Box.findAndPopulateBoxById">>
        IN  IF format = Undefined
            THEN Begin(r, "done", <<InvalidArgument>>, <<>>)
            ELSE IF p[3]
            THEN Begin(r, "done", <<InternalServer>>, ops)
            ELSE IF boxId \notin DOMAIN boxes
            THEN Begin(r, "done", <<NotFound>>, ops)
            ELSE Begin([r EXCEPT !.sent = FindBoxSent(boxes, boxId, format)],
                       "done", <<Resp(200, "box")>>, ops)
    /\ UNCHANGED <<boxes, actors, measurements, ingested>>

\* The boxes findAllBoxes selects: all of them without a date; with a date the
\* boxes with a sensor that has a measurement within four hours of it, and
\* with a sensor of the phenomenon when one is given.
FindAllBoxesFound(bs, ms, date, phenomenon) ==
    IF date = NoTime THEN DOMAIN bs
    ELSE LET active == {rec.sensor_id : rec \in
                          {m \in DOMAIN ms : /\ m.createdAt > date.t - 4
                                               /\ m.createdAt < date.t + 4}}
         IN  {b \in DOMAIN bs :
                /\ DOMAIN bs[b].sensors \cap active # {}
                /\ phenomenon # Undefined
                    => \E x \in DOMAIN bs[b].sensors : bs[b].sensors[x].title = phenomenon}

\* What findAllBoxes hands to res.send.
FindAllBoxesSent(bs, ms, date, phenomenon, format) ==
    {FindBoxSent(bs, b, format) : b \in FindAllBoxesFound(bs, ms, date, phenomenon)}

\* The requests tried: (date, phenomenon, format, the store fails).
FindAllBoxesParams ==
    {p \in {NoTime, At(Now - 1)} \X {Undefined, "Luftdruck"}
              \X {Undefined, "geojson", "xml"} \X BOOLEAN :
        /\ p[3] = "xml" => (p[1] = NoTime /\ p[2] = Undefined /\ ~p[4])
        /\ p[4] => (p[2] = Undefined /\ p[3] = Undefined)}

\* findAllBoxes: GET /boxes.  When Box.find fails the callback gets no boxes:
\* without a date the cleaning step throws in the promise chain and the catch
\* answers 500; with a date boxes.forEach throws in the callback, outside the
\* chain, and the request gets no answer.
FindAllBoxes ==
    /\ Idle
    /\ \E p \in FindAllBoxesParams :
        LET date == p[1]
            phenomenon == p[2]
            format == getFormat(p[3], {"json", "geojson"}, "json")
            r == [kind |-> "findAllBoxes", date |-> date, phenomenon |-> phenomenon,
                  format |-> p[3], sent |-> {}]
            ops == IF date = NoTime THEN <<"Box.find">>
                   ELSE <<"Measurement.find", "Box.find">>
        IN  IF format = Undefined
            THEN Begin(r, "done", <<InvalidArgument>>, <<>>)
            ELSE IF p[4]
            THEN Begin(r, "done",
                       IF date = NoTime THEN <<InternalServer>> ELSE <<>>, ops)
            ELSE Begin([r EXCEPT !.sent = FindAllBoxesSent(boxes, measurements, date,
                                                           phenomenon, format)],
                       "done", <<Resp(200, "boxes")>>, ops)
    /\ UNCHANGED <<boxes, actors, measurements, ingested>>

\* Box.findOne({ _id: req.boxId }, { sensors: 1 }): the projection keeps the
\* sensors only.
GetMeasurementsSent(bs, boxId) == [sensors |-> bs[boxId].sensors]

\* getMeasurements: GET /boxes/:boxId/sensors
GetMeasurements ==
    /\ Idle
    /\ \E boxId \in BoxIds \cup {UnknownBox}, fails \in BOOLEAN :
        LET r == [kind |-> "getMeasurements", boxId |-> boxId, sent |-> <<>>]
        IN  /\ fails => boxId = "b1"
            /\ IF fails
               THEN Begin(r, "done", <<InternalServer>>, <<"Box.findOne">>)
               ELSE IF boxId \notin DOMAIN boxes
               THEN Begin(r, "done", <<NotFound>>, <<"Box.findOne">>)
               ELSE Begin([r EXCEPT !.sent = GetMeasurementsSent(boxes, boxId)],
                          "done", <<Resp(200, "box_with_sensors")>>, <<"Box.findOne">>)
    /\ UNCHANGED <<boxes, actors, measurements, ingested>>

----------------------------------------------------------------------------
(* Connection manager: the actors of the boxes' broker connections, started  *)
(* by Box.connectMQTTBoxes() and kept in step with the boxes' mqtt field.    *)

\* reconnection delay: the minimum, the cap, the largest jitter
MinDelay == 1
MaxDelay == 2
MaxJitter == 1
\* decode or ingest failures after which an actor drops its connection
ErrorThreshold == 2

\* A fresh actor: not connected, no failure counted, nothing received.
\* subs holds the configurations of its live subscriptions.
NewActor(config) ==
    [config |-> config, state |-> "Disconnected", n |-> 0, delay |-> MinDelay,
     subs |-> {}, arrived |-> 0, inbox |-> <<>>, log |-> <<>>, errors |-> 0]

\* Box.connectMQTTBoxes(): one actor per box with a broker configuration.
ConnectMQTTBoxes(bs) ==
    [b \in {x \in DOMAIN bs : bs[x].mqtt # NoMqtt} |-> NewActor(bs[b].mqtt)]

\* The manager replaces the connection of a box whose configuration changed:
\* the actor is torn down, its subscription closed; with a new configuration a
\* fresh actor is spawned.
ReplaceKeepingSubscription(as, b, old, new) ==
    IF new = old THEN as
    ELSE [x \in DOMAIN as \cup {b} |->
            IF x # b THEN as[x]
            ELSE IF b \in DOMAIN as
                 THEN [NewActor(new) EXCEPT !.subs = as[b].subs]
                 ELSE NewActor(new)]
Replace(as, b, old, new) ==
    IF new = old THEN as
    ELSE IF new = NoMqtt THEN [x \in DOMAIN as \ {b} |-> as[x]]
    ELSE [x \in DOMAIN as \cup {b} |-> IF x = b THEN NewActor(new) ELSE as[x]]

\* The actor of a deleted box is torn down.
Stop(as, b) == [x \in DOMAIN as \ {b} |-> as[x]]

\* What the manager's steps leave alone.
RequestUnchanged == UNCHANGED <<boxes, req, pc, responses, storeOps, pipe, ingested>>

\* Disconnected -> Connecting, on manager start or to reconnect.
ConnectStartOf(b) ==
    /\ actors[b].state = "Disconnected"
    /\ actors' = [actors EXCEPT ![b].state = "Connecting"]
    /\ UNCHANGED measurements
    /\ RequestUnchanged

ConnectStart == \E b \in DOMAIN actors : ConnectStartOf(b)

\* Connecting -> Connected on handshake and subscription; the failure count
\* and the delay start over.
DelayAfterSuccessKept(delay) == delay
DelayAfterSuccess(delay) == MinDelay

ConnectOkOf(b) ==
    /\ actors[b].state = "Connecting"
    /\ actors' = [actors EXCEPT ![b].state = "Connected", ![b].n = 0,
                                ![b].delay = DelayAfterSuccess(@),
                                ![b].subs = @ \cup {actors[b].config}]
    /\ UNCHANGED measurements
    /\ RequestUnchanged

ConnectOk == \E b \in DOMAIN actors : ConnectOkOf(b)

\* The delay of Backoff(n): it doubles with n from the minimum, with jitter,
\* up to the cap.
BackoffDelayUncapped(n, jitter) == MinDelay * 2^(n - 1) + jitter
BackoffDelay(n, jitter) == Min(MaxDelay, MinDelay * 2^(n - 1) + jitter)

\* Connecting -> Backoff(n) on connect failure.
ConnectFailOf(b) ==
    /\ actors[b].state = "Connecting"
    /\ actors[b].n < MaxFailures
    /\ \E jitter \in 0..MaxJitter :
          actors' = [actors EXCEPT ![b].state = "Backoff", ![b].n = @ + 1,
                                  ![b].delay = BackoffDelay(actors[b].n + 1, jitter)]
    /\ UNCHANGED measurements
    /\ RequestUnchanged

ConnectFail == \E b \in DOMAIN actors : ConnectFailOf(b)

\* Backoff(n) -> Connecting once the delay has passed.
BackoffExpireOf(b) ==
    /\ actors[b].state = "Backoff"
    /\ actors' = [actors EXCEPT ![b].state = "Connecting"]
    /\ UNCHANGED measurements
    /\ RequestUnchanged

BackoffExpire == \E b \in DOMAIN actors : BackoffExpireOf(b)

\* Connected -> Disconnected on a close by the broker.
BrokerCloseOf(b) ==
    /\ actors[b].state = "Connected"
    /\ actors' = [actors EXCEPT ![b].state = "Disconnected", ![b].subs = {}]
    /\ UNCHANGED measurements
    /\ RequestUnchanged

BrokerClose == \E b \in DOMAIN actors : BrokerCloseOf(b)

\* The payloads a broker delivers for a box: a value of a sensor of the box,
\* one the decoder throws on, a value of a sensor that is not the box's.
Payloads(b) ==
    {<<<<CHOOSE s \in DOMAIN boxes[b].sensors : TRUE, "23.5">>>>,
     <<<<UnknownSensor>>>>, <<<<UnknownSensor, "23.5">>>>}

Arrived == LET S == DOMAIN actors
               RECURSIVE Sum(_)
               Sum(T) == IF T = {} THEN 0
                         ELSE LET x == CHOOSE y \in T : TRUE
                              IN  actors[x].arrived + Sum(T \ {x})
           IN  Sum(S)

\* A message arrives on the subscription of a connected actor.
MessageArrivesOf(b) ==
    /\ actors[b].state = "Connected"
    /\ b \in DOMAIN boxes
    /\ Arrived < MaxMessages
    /\ \E body \in Payloads(b) :
          actors' = [actors EXCEPT
                       ![b].arrived = @ + 1,
                       ![b].inbox = Append(@, [idx |-> actors[b].arrived + 1,
                                               body |-> body])]
    /\ UNCHANGED measurements
    /\ RequestUnchanged

MessageArrives == \E b \in DOMAIN actors : MessageArrivesOf(b)

\* The message an actor handles next, and the ones it keeps for later.
NextMessageLast(inbox) == Len(inbox)
NextMessage(inbox) == 1

\* The actor decodes its next message and calls the ingestion sink.  A decode
\* or ingest failure is logged and counted against this actor; at the error
\* threshold the actor drops its connection.
HandleMessageOf(b) ==
    /\ b \in DOMAIN actors
    /\ b \in DOMAIN boxes
    /\ actors[b].inbox # <<>>
    /\ LET a == actors[b]
           k == NextMessage(a.inbox)
           m == a.inbox[k]
           rest == [i \in 1..(Len(a.inbox) - 1) |->
                      IF i < k THEN a.inbox[i] ELSE a.inbox[i + 1]]
           decoded == decodeMessage(m.body)
           outcome == IF ~decoded.ok THEN "decodeError"
                      ELSE IF ~saveMeasurementAccepts(boxes[b], decoded.measurements[1])
                      THEN "ingestError"
                      ELSE "ingested"
           errors == IF outcome = "ingested" THEN a.errors ELSE a.errors + 1
           drop == errors >= ErrorThreshold /\ a.state = "Connected"
       IN  /\ actors' = [actors EXCEPT
                            ![b].inbox = rest,
                            ![b].log = Append(@, [idx |-> m.idx, outcome |-> outcome]),
                            ![b].errors = IF errors >= ErrorThreshold THEN 0 ELSE errors,
                            ![b].state = IF drop THEN "Disconnected" ELSE @,
                            ![b].subs = IF drop THEN {} ELSE @]
           /\ measurements' =
                  IF outcome = "ingested"
                  THEN measurements (+) BagOfRecords(decoded.measurements)
                  ELSE measurements
    /\ RequestUnchanged

HandleMessage == \E b \in BoxIds : HandleMessageOf(b)

----------------------------------------------------------------------------
(* updateBox: PUT /boxes/:boxId, and deleteBox: DELETE /boxes/:boxId *)

\* req.params.mqtt: not given, null, the empty object, a configuration.
MqttParams ==
    {[kind |-> "undefined", url |-> Undefined, topic |-> Undefined],
     [kind |-> "null", url |-> Undefined, topic |-> Undefined],
     [kind |-> "object", url |-> Undefined, topic |-> Undefined],
     [kind |-> "object", url |-> MqttB.url, topic |-> MqttB.topic]}

\* if (req.params.mqtt === null) box.set('mqtt', {})
\* else if (mqtt, mqtt.url and mqtt.topic are defined) box.set({ mqtt: ... })
SetMqtt(stored, param) ==
    IF param.kind = "null" THEN NoMqtt
    ELSE IF param.kind # "undefined" /\ param.url # Undefined
            /\ param.topic # Undefined
    THEN [url |-> param.url, topic |-> param.topic]
    ELSE stored

\* Measurement.find({ sensor_id: updatedsensor._id }).remove(), for every
\* sensor of the request marked deleted
RemoveMeasurementsAll(bag, sensorIds) == EmptyBag
RemoveMeasurements(bag, sensorIds) ==
    [r \in {x \in DOMAIN bag : x.sensor_id \notin sensorIds} |-> bag[r]]

\* Box.update({'sensors._id': id}, { $pull: { sensors: { _id: id } } })
PullSensors(bs, sensorIds) ==
    [b \in DOMAIN bs |->
        [bs[b] EXCEPT !.sensors =
            [s \in DOMAIN bs[b].sensors \ sensorIds |-> bs[b].sensors[s]]]]

\* The entries of qrys, run together by Promise.all(qrys): the removal of the
\* measurements and the $pull of every sensor marked deleted, and box.save()
\* with the fields set on the box.
UpdateBoxWrites(deleted) ==
    {"box.save"} \cup (IF deleted # {} THEN {"Measurement.remove", "Box.update"} ELSE {})

\* Promise.all settles with the first rejection and stops nothing: a write
\* that does not fail itself takes effect whether or not another one fails.
\* WriteApplies tells whether a write of the request takes effect, given the
\* writes the store fails.
WriteApplies(write, failed) == write \notin failed

\* The requests tried: (key and user lookup, box, name, sensors marked
\* deleted, mqtt, the writes the store fails).  A write fails in requests of
\* the box's user that rename the box and delete sensor s1.
UpdateBoxParams ==
    {p \in AuthInputs \X {"b1"} \X {Undefined, "Gamma"} \X {{}, {"s1"}, {"s2"}}
              \X MqttParams
              \X {{}, {"box.save"}, {"Measurement.remove"}, {"Box.update"}} :
        p[6] # {} => /\ p[1] = <<"k1", FALSE>>
                     /\ p[3] = "Gamma"
                     /\ p[4] = {"s1"}
                     /\ p[5].kind = "undefined"}

\* The handler with its writes: the name, the measurements and the entries of
\* the sensors marked deleted, box.save().  Without a box the first callback
\* throws and the catch answers 500; so does the catch of Promise.all when a
\* write fails.
UpdateBox ==
    /\ Idle
    /\ \E p \in UpdateBoxParams :
        LET auth == p[1]
            boxId == p[2]
            name == p[3]
            deleted == p[4]
            mqtt == p[5]
            failed == p[6]
            passed == validateAuthenticationRequest(auth[1], boxId, auth[2])
            r == [kind |-> "updateBox", boxId |-> boxId, apikey |-> auth[1],
                  findFails |-> auth[2], name |-> name, mqtt |-> mqtt,
                  deleted |-> deleted, failed |-> failed,
                  before |-> measurements, boxesBefore |-> boxes]
            saved == WriteApplies("box.save", failed)
        IN  IF passed # Passed THEN Rejected(r, passed)
            ELSE IF boxId \notin DOMAIN boxes
            THEN /\ Begin(r, "done", <<InternalServer>>,
                          <<"User.findOne", "Box.findById">>)
                 /\ UNCHANGED <<boxes, actors, measurements>>
            ELSE /\ Begin(r, "done",
                          IF failed \cap UpdateBoxWrites(deleted) = {}
                          THEN <<Resp(200, "box")>> ELSE <<InternalServer>>,
                          <<"User.findOne", "Box.findById">>
                          \o (IF deleted # {} THEN <<"Measurement.remove", "Box.update">>
                              ELSE <<>>)
                          \o <<"box.save">>)
                 /\ measurements' = IF WriteApplies("Measurement.remove", failed)
                                    THEN RemoveMeasurements(measurements, deleted)
                                    ELSE measurements
                 /\ boxes' = LET named == IF name # Undefined /\ saved
                                          THEN [boxes EXCEPT ![boxId].name = name]
                                          ELSE boxes
                                 set == IF saved
                                        THEN [named EXCEPT ![boxId].mqtt = SetMqtt(@, mqtt)]
                                        ELSE named
                             IN  IF WriteApplies("Box.update", failed)
                                 THEN PullSensors(set, deleted)
                                 ELSE set
                 /\ actors' = IF saved
                              THEN Replace(actors, boxId, boxes[boxId].mqtt,
                                           SetMqtt(boxes[boxId].mqtt, mqtt))
                              ELSE actors
    /\ UNCHANGED ingested

\* Box.deleteBox(boxId): "Delete a senseBox and its measurements".
DeleteBox ==
    /\ Idle
    /\ \E auth \in AuthInputs, boxId \in BoxIds :
        LET passed == validateAuthenticationRequest(auth[1], boxId, auth[2])
            r == [kind |-> "deleteBox", boxId |-> boxId, apikey |-> auth[1],
                  findFails |-> auth[2], before |-> measurements]
        IN  IF passed # Passed THEN Rejected(r, passed)
            ELSE IF boxId \notin DOMAIN boxes
            THEN /\ Begin(r, "done", <<InternalServer>>,
                          <<"User.findOne", "Box.deleteBox">>)
                 /\ UNCHANGED <<boxes, actors, measurements>>
            ELSE /\ Begin(r, "done", <<Resp(200, "Box deleted")>>,
                          <<"User.findOne", "Box.deleteBox">>)
                 /\ measurements' =
                        RemoveMeasurements(measurements, DOMAIN boxes[boxId].sensors)
                 /\ boxes' = [b \in DOMAIN boxes \ {boxId} |-> boxes[b]]
                 /\ actors' = Stop(actors, boxId)
    /\ UNCHANGED ingested

----------------------------------------------------------------------------
Init ==
    /\ boxes = InitBoxes
    /\ measurements = InitMeasurements
    /\ req = NoReq
    /\ pc = "idle"
    /\ responses = <<>>
    /\ storeOps = <<>>
    /\ pipe = NoPipe
    /\ ingested = 0
    /\ actors = ConnectMQTTBoxes(InitBoxes)

Next ==
    \/ PostNewMeasurement
    \/ PostNewMeasurementThen
    \/ PostNewMeasurementSaved
    \/ PostNewMeasurementCatch
    \/ PostNewMeasurements
    \/ PostNewMeasurementsThen
    \/ PostNewMeasurementsSaved
    \/ PostNewMeasurementsCatch
    \/ GetData
    \/ GetDataMulti
    \/ GetDataMultiThen
    \/ GetDataMultiCatch
    \/ CursorFetch
    \/ Flow
    \/ End
    \/ ConsumerDisconnect
    \/ BufferFill
    \/ CursorError
    \/ ValidApiKey
    \/ InvalidIdRequest
    \/ FindBox
    \/ FindAllBoxes
    \/ GetMeasurements
    \/ GetScript
    \/ UpdateBox
    \/ DeleteBox
    \/ Release

Spec == Init /\ [][Next]_vars

\* A store that holds more records of one sensor than the single-sensor export
\* returns.
InitBulk ==
    /\ boxes = InitBoxes
    /\ measurements = InitMeasurements
                        (+) [r \in {Measurement_("s1", "23.5", Now - 1)} |-> queryLimit]
    /\ req = NoReq
    /\ pc = "idle"
    /\ responses = <<>>
    /\ storeOps = <<>>
    /\ pipe = NoPipe
    /\ ingested = 0
    /\ actors = ConnectMQTTBoxes(InitBoxes)

SpecBulk == InitBulk /\ [][Next]_vars

\* A store that holds the value 0 and an empty value, stored as received.
InitFalsy ==
    /\ boxes = InitBoxes
    /\ measurements = SetToBag({Measurement_("s1", NumberZero, Now - 2),
                                Measurement_("s2", "", Now - 2),
                                Measurement_("s1", "7", Now - DefaultWindowSingle)})
    /\ req = NoReq
    /\ pc = "idle"
    /\ responses = <<>>
    /\ storeOps = <<>>
    /\ pipe = NoPipe
    /\ ingested = 0
    /\ actors = ConnectMQTTBoxes(InitBoxes)

SpecFalsy == InitFalsy /\ [][Next]_vars

\* Two boxes with a broker configuration each.
InitMqtt ==
    /\ boxes = [InitBoxes EXCEPT !["b1"].mqtt = MqttA]
    /\ measurements = InitMeasurements
    /\ req = NoReq
    /\ pc = "idle"
    /\ responses = <<>>
    /\ storeOps = <<>>
    /\ pipe = NoPipe
    /\ ingested = 0
    /\ actors = ConnectMQTTBoxes([InitBoxes EXCEPT !["b1"].mqtt = MqttA])

\* The connection manager on its own: the actors connect, fail, back off,
\* receive and handle messages.  A message handler is a callback of the event
\* loop: once a message is in, it is handled.
NextActors ==
    \/ ConnectStart
    \/ ConnectOk
    \/ ConnectFail
    \/ BackoffExpire
    \/ BrokerClose
    \/ MessageArrives
    \/ HandleMessage

SpecActors ==
    /\ InitMqtt
    /\ [][NextActors]_vars
    /\ \A b \in BoxIds : WF_vars(HandleMessageOf(b))

\* The connection manager with the requests that change a box's configuration.
NextMqtt ==
    \/ ConnectStart
    \/ ConnectOk
    \/ BrokerClose
    \/ UpdateBox
    \/ DeleteBox
    \/ Release

SpecMqtt == InitMqtt /\ [][NextMqtt]_vars

----------------------------------------------------------------------------
(* Properties *)

Ingestion == {"postNewMeasurement", "postNewMeasurements"}
Exports == {"getData", "getDataMulti"}

Sent(status) == \E i \in 1..Len(responses) : responses[i].status = status

\* C1: an ingestion request whose box does not exist, or whose save fails, ends
\* with a rejection only: the 201 answer is never sent for it, and every
\* finished ingestion request has made exactly one answer.
IngestionFailureRejectsOnly ==
    req.kind \in Ingestion =>
        /\ Len(responses) <= 1
        /\ (pc = "done" => Len(responses) = 1)
        /\ (~req.saved => ~Sent(201))

\* C2: when the decoder throws on the payload of an ingestion request, the
\* request ends with the single answer UnprocessableEntity, no store call has
\* been made for it, and the stored measurements are those of before.
DecodeErrorRejectsWholePayload ==
    (/\ req.kind \in Ingestion
     /\ req.kind = "postNewMeasurements" => HandlerLookup(req.contentType)
     /\ ~decodeMessage(req.body).ok)
    => /\ pc = "done"
       /\ responses = <<Resp(422, "UnprocessableEntity")>>
       /\ storeOps = <<>>
       /\ measurements = req.before

\* C2, its case: a bulk payload with a row of one field has been rejected.
DecodeErrorRejected ==
    /\ req.kind = "postNewMeasurements"
    /\ req.contentType = "text/csv"
    /\ Len(req.body) = MaxBatch
    /\ \E i \in 1..Len(req.body) : Len(req.body[i]) < 2
    /\ responses = <<Resp(422, "UnprocessableEntity")>>

\* The range an export request asks for, with the defaults of its handler.
RequestedTo(r) == IF r.to.kind = "absent" THEN Now ELSE r.to.t
RequestedFrom(r) ==
    IF r.from.kind # "absent" THEN r.from.t
    ELSE RequestedTo(r) - (IF r.kind = "getData" THEN DefaultWindowSingle
                           ELSE DefaultWindowMulti)

\* C3: an export request whose from-date is after its to-date, or whose span
\* exceeds the maximum, is rejected with no store query made, no cursor opened
\* and nothing written to the response.
InvalidRangeRejectedBeforeQuery ==
    (/\ req.kind \in Exports
     /\ req.to.kind # "invalid" /\ req.from.kind # "invalid"
     /\ \/ RequestedFrom(req) > RequestedTo(req)
        \/ RequestedTo(req) - RequestedFrom(req) > MaxSpanHours)
    => /\ pc = "done"
       /\ responses = <<InvalidArgument>>
       /\ storeOps = <<>>
       /\ pipe = NoPipe

\* C3, its case: a single-sensor export over a span that exceeds the maximum
\* has been rejected.
InvalidRangeRejected ==
    /\ req.kind = "getData"
    /\ req.to.kind = "time" /\ req.from.kind = "time"
    /\ req.to.t - req.from.t > MaxSpanHours
    /\ responses = <<InvalidArgument>>

\* The allow-list of the column parameter.
AllowedColumns ==
    {"createdAt", "value", "lat", "lng", "unit", "boxId", "sensorId",
     "phenomenon", "sensorType", "boxName"}

HasIllegalColumn(r) == \E i \in 1..Len(r.columns) : r.columns[i] \notin AllowedColumns

\* C4: a multi-device export that names a column outside the allow-list never
\* opens the measurement cursor and writes nothing, and ends rejected; one whose
\* columns are all allowed is never answered 'illegal columns'.
IllegalColumnsRejectedBeforeStreaming ==
    req.kind = "getDataMulti" =>
        IF HasIllegalColumn(req)
        THEN /\ pipe = NoPipe
             /\ \A i \in 1..Len(storeOps) : storeOps[i] # "Measurement.find"
             /\ pc = "done" => Len(responses) = 1 /\ IsError(responses[1])
        ELSE ~Sent(422)

\* C4, its case: the columns were checked (the boxes had been found) and the
\* request was rejected for them.
IllegalColumnsRejected ==
    /\ req.kind = "getDataMulti"
    /\ HasIllegalColumn(req)
    /\ storeOps = <<"Box.find">>
    /\ responses = <<Resp(422, "UnprocessableEntity")>>

\* A stored measurement that a step removes (or of which it removes copies).
Lost(r) == r \notin DOMAIN measurements' \/ measurements'[r] < measurements[r]

\* C5, as claimed: no operation ever removes or changes a stored measurement;
\* the stored measurements only grow.
MeasurementsOnlyGrow ==
    [][\A r \in DOMAIN measurements : ~Lost(r)]_vars

\* C5, amended: a stored measurement is removed only by updateBox, as one of a
\* sensor the request marks deleted, or by deleteBox, as one of a sensor of the
\* deleted box; ingestion and the exports never remove or change one.
MeasurementsRemovedOnlyWithSensorOrBox ==
    [][\A r \in DOMAIN measurements :
          Lost(r) =>
              \/ /\ req'.kind = "updateBox"
                 /\ r.sensor_id \in req'.deleted
              \/ /\ req'.kind = "deleteBox"
                 /\ req'.boxId \in DOMAIN boxes
                 /\ r.sensor_id \in DOMAIN boxes[req'.boxId].sensors]_vars

\* C5, its case: updateBox has removed the measurements of a deleted sensor
\* while those of the other sensors are still stored.
SensorMeasurementsRemoved ==
    /\ req.kind = "updateBox"
    /\ req.deleted = {"s1"}
    /\ \E r \in DOMAIN req.before : r.sensor_id = "s1"
    /\ \A r \in DOMAIN measurements : r.sensor_id # "s1"
    /\ \E r \in DOMAIN measurements : r.sensor_id = "s2"

\* A bulk payload with an entry for a sensor of the box and one for a sensor
\* that is not the box's.
MixedBatch(r) ==
    /\ r.boxId \in DOMAIN boxes
    /\ \E i \in 1..Len(r.body) : r.body[i][1] \in DOMAIN boxes[r.boxId].sensors
    /\ \E i \in 1..Len(r.body) : r.body[i][1] \notin DOMAIN boxes[r.boxId].sensors

\* The records a payload's entries for the given sensors amount to.
RECURSIVE ExpectedStored(_, _)
ExpectedStored(entries, sensors) ==
    IF entries = <<>> THEN EmptyBag
    ELSE LET e == Head(entries)
             rest == ExpectedStored(Tail(entries), sensors)
         IN  IF e[1] \in sensors
             THEN SetToBag({[sensor_id |-> e[1], value |-> e[2],
                             createdAt |-> IF Len(e) >= 3 /\ e[3].kind = "time"
                                           THEN e[3].t ELSE Now]}) (+) rest
             ELSE rest

DisconnectClosesCursor ==
    (pipe.kind # "none" /\ pipe.sink = "closed") => pipe.cursor # "open"

\* C7, its second half: after the consumer has disconnected no further batch is
\* fetched from the store for the request.  The code's chain fetches on until
\* its buffers are full, so this does not hold either.
NoFetchAfterDisconnect ==
    [][(pipe.kind # "none" /\ pipe'.kind # "none" /\ pipe.sink = "closed")
       => pipe'.fetched = pipe.fetched]_vars

\* C8: once the cursor of an export has failed after records were streamed, the
\* response is terminated, not left open.
CursorFailureEndsResponse ==
    (pipe.kind # "none" /\ pipe.cursor = "failed" /\ pipe.written > 0)
    => pipe.sink # "open"

\* The sensors a multi-device export is about, and the stored records in its
\* range.
ExportedSensors(r) ==
    {s \in SensorIds : \E b \in DOMAIN boxes \cap r.boxIds :
        /\ s \in DOMAIN boxes[b].sensors
        /\ boxes[b].sensors[s].title = r.phenomenon}

StoredInRange(r) ==
    BagCardinality([m \in {x \in DOMAIN measurements :
                              /\ x.sensor_id \in ExportedSensors(r)
                              /\ x.createdAt > RequestedFrom(r)
                              /\ x.createdAt < RequestedTo(r)} |-> measurements[m]])

\* C9: the single-sensor export never writes more than 10000 records; the
\* multi-device export, when it completes, has written every stored record of
\* its sensors within its range, however many.
ExportRowCaps ==
    /\ pipe.kind = "single" => pipe.written <= 10000
    /\ (pipe.kind = "multi" /\ pipe.sink = "ended" /\ pipe.cursor = "exhausted")
       => pipe.written = StoredInRange(req)

\* C9, its case: more than 10000 stored records match a single-sensor export,
\* which has completed with 10000 written.
SingleExportCapped ==
    /\ pipe.kind = "single"
    /\ pipe.sink = "ended"
    /\ pipe.written = 10000
    /\ BagCardinality([m \in {x \in DOMAIN measurements :
                                 /\ x.sensor_id = req.sensorId
                                 /\ x.createdAt >= RequestedFrom(req)
                                 /\ x.createdAt <= RequestedTo(req)}
                          |-> measurements[m]]) > 10000

\* The multi-device export has completed with more than 10000 rows.
MultiExportUncapped ==
    pipe.kind = "multi" /\ pipe.sink = "ended" /\ pipe.written > 10000

\* The box that owns a sensor.
Owner(s) == CHOOSE b \in DOMAIN boxes : s \in DOMAIN boxes[b].sensors

\* What a metadata column of a row is to hold for a sensor: coordinates is a
\* GeoJSON position, longitude first.
OwnMetadata(s, col) ==
    CASE col = "lat" -> boxes[Owner(s)].coordinates[2]
      [] col = "lng" -> boxes[Owner(s)].coordinates[1]
      [] col = "boxName" -> boxes[Owner(s)].name
      [] col = "boxId" -> Owner(s)
      [] col = "sensorId" -> s
      [] col = "unit" -> boxes[Owner(s)].sensors[s].unit
      [] col = "sensorType" -> boxes[Owner(s)].sensors[s].sensorType
      [] col = "phenomenon" -> boxes[Owner(s)].sensors[s].title

MetadataColumns == AllowedColumns \ {"createdAt", "value"}

\* C10: every row a multi-device export writes carries, in its metadata
\* columns, the metadata of the box and the sensor that own the row's sensor.
RowsCarryOwnMetadata ==
    pipe.kind = "multi" =>
        \A i \in 1..Len(RowsWritten) :
            \A col \in DOMAIN RowsWritten[i].row \cap MetadataColumns :
                RowsWritten[i].row[col] = OwnMetadata(RowsWritten[i].rec.sensor_id, col)

\* Every written row carries its own device's metadata in the columns other
\* than lat and lng, and in lat and lng the two coordinates of its own box, the
\* longitude under lat and the latitude under lng.
RowsCarryOwnMetadataCoordinatesSwapped ==
    pipe.kind = "multi" =>
        \A i \in 1..Len(RowsWritten) :
            \A col \in DOMAIN RowsWritten[i].row \cap MetadataColumns :
                RowsWritten[i].row[col] =
                    OwnMetadata(RowsWritten[i].rec.sensor_id,
                                CASE col = "lat" -> "lng"
                                  [] col = "lng" -> "lat"
                                  [] OTHER -> col)

Secured == {"validApiKey", "getScript", "updateBox", "deleteBox"}
Unsecured == Ingestion \cup Exports

\* The request's x-apikey is the key of a user whose boxes contain its boxId.
KeyOwnsBox(r) ==
    \E k \in DOMAIN Users : r.apikey = k /\ r.boxId \in Users[k]

\* The route's handler has run: it has called the Box collection or sent 200.
HandlerRan(ops, sent) ==
    \/ \E i \in 1..Len(ops) : ops[i] # "User.findOne"
    \/ \E i \in 1..Len(sent) : sent[i].status = 200

\* C11, as claimed: a secured handler runs only for a request with the key of
\* a user who owns the box; every other request to a secured route gets
\* NotAuthorized, nothing else, and changes nothing; the other routes never
\* answer NotAuthorized.
SecuredRoutesRejectNotAuthorized ==
    [][/\ req'.kind \in Secured =>
            /\ HandlerRan(storeOps', responses') => KeyOwnsBox(req')
            /\ ~KeyOwnsBox(req') =>
                  /\ responses' = <<NotAuthorized>>
                  /\ UNCHANGED <<boxes, measurements>>
       /\ req'.kind \in Unsecured =>
            \A i \in 1..Len(responses') : responses'[i] # NotAuthorized]_vars

\* C11, amended: as claimed, but a request with a key whose user lookup fails
\* is answered InternalServerError, not NotAuthorized; the handler does not
\* run and nothing changes then either.
SecuredRoutesRejectUnlessOwner ==
    [][/\ req'.kind \in Secured =>
            /\ HandlerRan(storeOps', responses') =>
                  KeyOwnsBox(req') /\ ~req'.findFails
            /\ (~KeyOwnsBox(req') \/ req'.findFails) =>
                  /\ responses' = <<IF req'.findFails /\ req'.apikey # NoKey
                                    THEN InternalServer ELSE NotAuthorized>>
                  /\ UNCHANGED <<boxes, measurements>>
       /\ req'.kind \in Unsecured =>
            \A i \in 1..Len(responses') : responses'[i] # NotAuthorized]_vars

\* C11, its case: updateBox asked to delete a sensor of box b1 with the key of
\* the user of another box has been answered NotAuthorized.
OtherUsersKeyRejected ==
    /\ req.kind = "updateBox"
    /\ req.apikey = "k2"
    /\ req.boxId = "b1"
    /\ req.deleted = {"s1"}
    /\ responses = <<NotAuthorized>>
    /\ measurements = req.before

\* updateBox has answered 200 for a box it found.
BoxUpdated == req'.kind = "updateBox" /\ req' # req /\ Sent(200)' /\ req'.boxId \in DOMAIN boxes

\* C12: after updateBox with mqtt null or empty the box holds no broker
\* configuration; after updateBox with a configuration with url and topic the
\* box holds that one.
MqttEmptyOrNullClears ==
    [][BoxUpdated =>
        LET p == req'.mqtt
            stored == boxes'[req'.boxId].mqtt
        IN  /\ (p.kind = "null" \/ (p.kind = "object" /\ p.url = Undefined))
               => stored = NoMqtt
            /\ (p.kind = "object" /\ p.url # Undefined /\ p.topic # Undefined)
               => stored = [url |-> p.url, topic |-> p.topic]]_vars

\* What updateBox does with mqtt: null clears the stored configuration, a
\* configuration with url and topic replaces it, and the empty object, like no
\* mqtt at all, leaves it as it is.
MqttNullClearsEmptyIgnored ==
    [][BoxUpdated =>
        LET p == req'.mqtt
            stored == boxes'[req'.boxId].mqtt
        IN  /\ p.kind = "null" => stored = NoMqtt
            /\ (p.kind = "object" /\ p.url # Undefined /\ p.topic # Undefined)
               => stored = [url |-> p.url, topic |-> p.topic]
            /\ (p.kind = "undefined" \/ (p.kind = "object" /\ p.url = Undefined))
               => stored = boxes[req'.boxId].mqtt]_vars

\* A payload the decoder takes and the box has a sensor for.
ValidPayload(b, body) ==
    /\ decodeMessage(body).ok
    /\ saveMeasurementAccepts(boxes[b], decodeMessage(body).measurements[1])

\* An actor has handled one more message.
Handled(b) ==
    /\ b \in DOMAIN actors
    /\ b \in DOMAIN actors'
    /\ Len(actors'[b].log) = Len(actors[b].log) + 1

\* C13: the actors are isolated: a step of one actor (a connect failure, a
\* decode or ingest failure among them) changes no other actor, each actor
\* handles its messages in arrival order, a valid message is ingested whatever
\* state the other actors are in, and every message that has arrived on an
\* actor's connection is eventually handled (the brokers deliver MaxMessages
\* messages at most, so from some point on every actor has handled all that
\* arrived for it).
ActorsIsolatedMessagesHandledInOrder ==
    /\ [](\A b \in DOMAIN actors :
            \A i \in 1..Len(actors[b].log) : actors[b].log[i].idx = i)
    /\ [][\A b \in BoxIds :
            /\ (b \in DOMAIN actors /\ b \in DOMAIN actors' /\ actors'[b] # actors[b])
               => \A o \in DOMAIN actors \ {b} : actors'[o] = actors[o]
            /\ (Handled(b) /\ ValidPayload(b, actors[b].inbox[1].body))
               => /\ actors'[b].log[Len(actors'[b].log)].outcome = "ingested"
                  /\ measurements' =
                        measurements
                          (+) BagOfRecords(decodeMessage(actors[b].inbox[1].body).measurements)]_vars
    /\ <>[](\A b \in DOMAIN actors : Len(actors[b].log) = actors[b].arrived)

\* C13 witness: box b2's actor is backing off after repeated connect failures
\* while box b1's actor has decoded and ingested two messages.
HealthyActorIngestsWhileOtherFails ==
    /\ {"b1", "b2"} \subseteq DOMAIN actors
    /\ actors["b2"].state = "Backoff"
    /\ actors["b2"].n >= 2
    /\ Len(actors["b1"].log) >= 2
    /\ \A i \in 1..Len(actors["b1"].log) : actors["b1"].log[i].outcome = "ingested"

\* C14: each box has at most one active subscription, and it is the one of
\* the configuration the box holds now: a subscription of a replaced
\* configuration is closed by the time a new one is active, and a box that was
\* deleted or holds no configuration has no actor and so no subscription.
AtMostOneSubscriptionPerBox ==
    /\ DOMAIN actors \subseteq {b \in DOMAIN boxes : boxes[b].mqtt # NoMqtt}
    /\ \A b \in DOMAIN actors :
          /\ Cardinality(actors[b].subs) <= 1
          /\ actors[b].subs \subseteq {boxes[b].mqtt}
          /\ actors[b].config = boxes[b].mqtt

\* C14 witness: updateBox has replaced the configuration of box b1 while its
\* actor was connected, and the actor of the new configuration is subscribed.
SubscribedToReplacedConfiguration ==
    /\ "b1" \in DOMAIN actors
    /\ boxes["b1"].mqtt = MqttB
    /\ actors["b1"].state = "Connected"
    /\ actors["b1"].subs = {MqttB}

\* updateBox has cleared the configuration of box b1, deleteBox has removed
\* box b2: neither has an actor.
ClearedAndDeletedHaveNoActor ==
    /\ "b1" \in DOMAIN boxes
    /\ boxes["b1"].mqtt = NoMqtt
    /\ "b2" \notin DOMAIN boxes
    /\ actors = <<>>

\* C15: the reconnection delay of an actor lies between the minimum and the
\* cap, does not decrease from one connect failure to the next, and is back at
\* the minimum, with no failure counted, once the actor is connected.
BackoffMonotoneCappedReset ==
    /\ [](\A b \in DOMAIN actors :
            /\ MinDelay <= actors[b].delay
            /\ actors[b].delay <= MaxDelay)
    /\ [][\A b \in DOMAIN actors \cap DOMAIN actors' :
            /\ actors'[b].n = actors[b].n + 1
               => /\ actors'[b].state = "Backoff"
                  /\ actors'[b].delay >= actors[b].delay
            /\ (actors[b].state = "Connecting" /\ actors'[b].state = "Connected")
               => /\ actors'[b].delay = MinDelay
                  /\ actors'[b].n = 0]_vars

\* C15 witness: after consecutive connect failures the actor of box b1 backs
\* off with the delay at the cap.
BackoffAtCap ==
    /\ "b1" \in DOMAIN actors
    /\ actors["b1"].state = "Backoff"
    /\ actors["b1"].n >= 2
    /\ actors["b1"].delay = MaxDelay

\* The format a request asks for, by the rule of format selection: json when
\* the parameter is absent or blank, json or csv whatever the case and the
\* surrounding blanks, no format for anything else.
RequestedFormat(f) ==
    CASE f \in {Undefined, " "} -> "json"
      [] f = "json" -> "json"
      [] f = " CSV " -> "csv"
      [] OTHER -> Undefined

\* The format of an export request selects the output: the request is
\* rejected with InvalidArgument before any query when it asks for no known
\* format, and its output has the encoder and the Content-Type asked for
\* otherwise.
FormatSelects(r) ==
    /\ RequestedFormat(r.format) = Undefined
        => /\ responses = <<InvalidArgument>>
           /\ storeOps = <<>>
           /\ pipe = NoPipe
    /\ (RequestedFormat(r.format) # Undefined /\ pipe # NoPipe)
        => /\ pipe.format = RequestedFormat(r.format)
           /\ pipe.contentType = IF RequestedFormat(r.format) = "csv" THEN "text/csv"
                                  ELSE "application/json; charset=utf-8"

\* A single export over the default range that asks for json or csv, or for
\* no format, is not rejected.
FormatAccepted(r) ==
    (RequestedFormat(r.format) # Undefined /\ r.from = NoTime /\ r.to = NoTime)
        => responses # <<InvalidArgument>>

\* C16: the format parameter selects the output of every export, getData and
\* getDataMulti: JSON when absent or blank, the encoder and Content-Type of
\* json or csv, a rejection with InvalidArgument before any query for any
\* other value.
ExportFormatSelected ==
    /\ req.kind \in {"getData", "getDataMulti"} => FormatSelects(req)
    /\ req.kind = "getData" => FormatAccepted(req)

\* C16 as the code has it: the format parameter selects the output of getData;
\* getDataMulti does not read it and its output is always CSV, text/csv.
SingleExportFormatSelectedMultiAlwaysCsv ==
    /\ req.kind = "getData" => FormatSelects(req) /\ FormatAccepted(req)
    /\ (req.kind = "getDataMulti" /\ pipe # NoPipe)
        => /\ pipe.format = "csv"
           /\ pipe.contentType = "text/csv"

\* C16 witness: a single export asked for with format ' CSV ' has written rows
\* of CSV.
CsvAskedInCapitalsWritten ==
    /\ req.kind = "getData"
    /\ req.format = " CSV "
    /\ pipe # NoPipe
    /\ pipe.format = "csv"
    /\ pipe.written > 0

\* A multi export asked for with format json has written rows of CSV.
MultiExportJsonAskedCsvWritten ==
    /\ req.kind = "getDataMulti"
    /\ req.format = "json"
    /\ pipe # NoPipe
    /\ pipe.format = "csv"
    /\ pipe.written > 0

\* The default window of an export.
Window(r) == IF r.kind = "getData" THEN DefaultWindowSingle ELSE DefaultWindowMulti

\* An export request whose to-date, given or not, is an instant.
ExportWithToDate ==
    /\ req.kind \in {"getData", "getDataMulti"}
    /\ req.toDate.kind = "time"

UnsupportedMediaType == Resp(415, "UnsupportedMediaType")

\* A content type with a registered decoder, in whatever case it is written.
RegisteredType(contentType) ==
    contentType \in {"application/json", "text/csv", "Text/CSV"}

\* C18: bulk ingestion with a content type that has no registered decoder
\* ends with the single answer UnsupportedMediaType, the body not decoded, no
\* store call made and the stored measurements those of before; with a
\* registered content type that answer is never given.
UnsupportedContentTypeRejected ==
    req.kind = "postNewMeasurements" =>
        /\ ~RegisteredType(req.contentType)
            => /\ pc = "done"
               /\ responses = <<UnsupportedMediaType>>
               /\ ~req.decodeCalled
               /\ storeOps = <<>>
               /\ measurements = req.before
        /\ RegisteredType(req.contentType)
            => /\ req.decodeCalled
               /\ \A i \in 1..Len(responses) : responses[i] # UnsupportedMediaType

\* C18 witness: a text/plain payload of two valid entries for box b1 has been
\* answered UnsupportedMediaType.
TextPlainRejected ==
    /\ req.kind = "postNewMeasurements"
    /\ req.contentType = "text/plain"
    /\ req.boxId = "b1"
    /\ req.body = <<<<"s1", "23.5">>, <<"s1", "23.5">>>>
    /\ responses = <<UnsupportedMediaType>>

\* A payload sent as Text/CSV has been saved.
CapitalsContentTypeSaved ==
    /\ req.kind = "postNewMeasurements"
    /\ req.contentType = "Text/CSV"
    /\ Sent(201)

\* The store with every broker configuration emptied: any two stores that
\* differ in the boxes' mqtt only are the same store after it.
EraseMqtt(bs) == [b \in DOMAIN bs |-> [bs[b] EXCEPT !.mqtt = NoMqtt]]

\* The object sent for a box, as json or as geojson, has no mqtt in it.
WithoutMqtt(o, format) ==
    IF getFormat(format, {"json", "geojson"}, "json") = "json"
    THEN "mqtt" \notin DOMAIN o
    ELSE "mqtt" \notin DOMAIN o.properties

\* C19: what findBox, findAllBoxes and getMeasurements send and what the
\* exports write has no broker configuration in it, and is what the same
\* request gets from the store with every broker configuration emptied.
UnsecuredResponsesHideMqtt ==
    /\ (req.kind = "findBox" /\ Sent(200))
        => /\ WithoutMqtt(req.sent, req.format)
           /\ req.sent = FindBoxSent(EraseMqtt(boxes), req.boxId,
                                     getFormat(req.format, {"json", "geojson"}, "json"))
    /\ (req.kind = "findAllBoxes" /\ Sent(200))
        => /\ \A o \in req.sent : WithoutMqtt(o, req.format)
           /\ req.sent = FindAllBoxesSent(EraseMqtt(boxes), measurements, req.date,
                                          req.phenomenon,
                                          getFormat(req.format, {"json", "geojson"}, "json"))
    /\ (req.kind = "getMeasurements" /\ Sent(200))
        => /\ DOMAIN req.sent = {"sensors"}
           /\ req.sent = GetMeasurementsSent(EraseMqtt(boxes), req.boxId)
    /\ (req.kind = "getData" /\ pipe # NoPipe)
        => pipe.lookup = <<>>
    /\ (req.kind = "getDataMulti" /\ pipe # NoPipe)
        => /\ \A x \in DOMAIN pipe.lookup : "mqtt" \notin DOMAIN pipe.lookup[x]
           /\ pipe.lookup = SensorsLookupOf(EraseMqtt(boxes), req.boxIds, req.phenomenon)

\* C19 witness: findBox has sent box b2, which holds a broker configuration.
BoxWithMqttSent ==
    /\ req.kind = "findBox"
    /\ req.boxId = "b2"
    /\ "b2" \in DOMAIN boxes
    /\ boxes["b2"].mqtt = MqttC
    /\ Sent(200)

\* findAllBoxes has sent both boxes while box b1 holds the configuration an
\* updateBox gave it.
AllBoxesSentWithMqttStored ==
    /\ req.kind = "findAllBoxes"
    /\ Sent(200)
    /\ Cardinality(req.sent) = 2
    /\ boxes["b1"].mqtt = MqttB

\* C20: for a request with an invalid box id or sensorId the middleware calls
\* next once, with BadRequest; the request is answered BadRequest and no
\* handler of the route runs.
InvalidIdNextCalledOnce ==
    req.kind = "invalidId" =>
        /\ req.nextCalls = <<BadRequest>>
        /\ responses = <<BadRequest>>
        /\ ~req.handlerRan
        /\ storeOps = <<>>

\* What holds of the middleware: the first call of next carries BadRequest
\* and is answered, and a call of next without an error always follows it.
InvalidIdNextCalledAgain ==
    req.kind = "invalidId" =>
        /\ Len(req.nextCalls) \in {2, 3}
        /\ req.nextCalls[1] = BadRequest
        /\ req.nextCalls[Len(req.nextCalls)] = Passed
        /\ responses[1] = BadRequest

\* The route's handler has run for a request with an invalid box id.
HandlerRanWithInvalidId ==
    /\ req.kind = "invalidId"
    /\ req.route = "findBox"
    /\ req.handlerRan
    /\ storeOps # <<>>

\* The stored records of a set of sensors with createdAt in the closed
\* interval from..to, and in the open one.
StoredClosed(sensors, from, to) ==
    {m \in DOMAIN measurements :
        m.sensor_id \in sensors /\ m.createdAt >= from /\ m.createdAt <= to}

StoredOpen(sensors, from, to) ==
    {m \in DOMAIN measurements :
        m.sensor_id \in sensors /\ m.createdAt > from /\ m.createdAt < to}

\* The records the cursor of the running export returns.
CursorRecords == {pipe.result[i].rec : i \in 1..Len(pipe.result)}

\* C21: the cursor of either export returns the stored records of its sensors
\* with createdAt in the closed interval [fromDate, toDate], those at either
\* end included.
ExportsQueryClosedInterval ==
    /\ pipe.kind = "single"
        => CursorRecords = StoredClosed({req.sensorId}, RequestedFrom(req), RequestedTo(req))
    /\ pipe.kind = "multi"
        => CursorRecords = StoredClosed(ExportedSensors(req), RequestedFrom(req),
                                       RequestedTo(req))

\* What the two queries select: getData the closed interval, getDataMulti the
\* open one.
SingleClosedMultiOpenInterval ==
    /\ pipe.kind = "single"
        => CursorRecords = StoredClosed({req.sensorId}, RequestedFrom(req), RequestedTo(req))
    /\ pipe.kind = "multi"
        => CursorRecords = StoredOpen(ExportedSensors(req), RequestedFrom(req),
                                     RequestedTo(req))

\* A single export over a range has returned the record stored at its to-date.
SingleExportReturnsRecordAtToDate ==
    /\ pipe.kind = "single"
    /\ req.to = At(Now - 1)
    /\ \E m \in CursorRecords : m.createdAt = Now - 1

\* The lat and lng findBox and findAllBoxes report for a box in geojson
\* format: the position of the feature, longitude first.
ReportedLat(b) == FindBoxSent(boxes, b, "geojson").geometry[2]
ReportedLng(b) == FindBoxSent(boxes, b, "geojson").geometry[1]

\* C22: the lat and lng of every row a multi-device export writes are the lat
\* and lng findBox and findAllBoxes report for the box of the row's sensor.
RowCoordinatesAsReportedByFindBox ==
    pipe.kind = "multi" =>
        \A i \in 1..Len(RowsWritten) :
            LET row == RowsWritten[i].row
                b == Owner(RowsWritten[i].rec.sensor_id)
            IN  /\ "lat" \in DOMAIN row => row["lat"] = ReportedLat(b)
                /\ "lng" \in DOMAIN row => row["lng"] = ReportedLng(b)

\* What the rows hold: under lat what findBox reports as lng, and under lng
\* what it reports as lat.
RowCoordinatesExchanged ==
    pipe.kind = "multi" =>
        \A i \in 1..Len(RowsWritten) :
            LET row == RowsWritten[i].row
                b == Owner(RowsWritten[i].rec.sensor_id)
            IN  /\ "lat" \in DOMAIN row => row["lat"] = ReportedLng(b)
                /\ "lng" \in DOMAIN row => row["lng"] = ReportedLat(b)

\* The cell the CSV stringifier writes for a field: nothing for a field that
\* is undefined or empty, the digits of a number.
CsvCell(v) ==
    CASE v = Undefined -> ""
      [] v = NumberZero -> "0"
      [] OTHER -> v

\* C23: in every row a multi-device export writes, the value and createdAt
\* cells are those of the stored record, whatever the stored value.
RowsCarryStoredValue ==
    pipe.kind = "multi" =>
        \A i \in 1..Len(RowsWritten) :
            LET row == RowsWritten[i].row
                rec == RowsWritten[i].rec
            IN  /\ "value" \in DOMAIN row => CsvCell(row["value"]) = CsvCell(rec.value)
                /\ "createdAt" \in DOMAIN row => row["createdAt"] = ISO(rec.createdAt)

\* What the transformer does: createdAt is the stored instant, a truthy value
\* is the stored one, and a falsy value (0, the empty string) is replaced by
\* the value field of the lookup entry, which has none.
RowsCarryStoredValueUnlessFalsy ==
    pipe.kind = "multi" =>
        \A i \in 1..Len(RowsWritten) :
            LET row == RowsWritten[i].row
                rec == RowsWritten[i].rec
            IN  /\ "value" \in DOMAIN row
                    => row["value"] = IF rec.value \in FalsyValues THEN Undefined
                                      ELSE rec.value
                /\ "createdAt" \in DOMAIN row => row["createdAt"] = ISO(rec.createdAt)

\* A row has been written for a stored record whose value is the empty string.
EmptyValueRowWritten ==
    /\ pipe.kind = "multi"
    /\ \E i \in 1..Len(RowsWritten) :
          /\ RowsWritten[i].rec.value = ""
          /\ "value" \in DOMAIN RowsWritten[i].row

\* updateBox has answered a request for a box it found with an error.
UpdateBoxFailed ==
    /\ req'.kind = "updateBox"
    /\ req' # req
    /\ Sent(500)'
    /\ req'.boxId \in DOMAIN boxes
    /\ req'.failed # {}

\* C24: an updateBox that ends with an error response has changed nothing,
\* the stored boxes and measurements being those of before the request.
UpdateBoxErrorLeavesStoreAsBefore ==
    [][(req'.kind = "updateBox" /\ req' # req /\ ~Sent(200)')
          => UNCHANGED <<boxes, measurements>>]_vars

\* What Promise.all does: updateBox answers 200 exactly when no write failed,
\* and with an error every write that did not fail itself has taken effect,
\* the failed one alone being left out.
UpdateBoxErrorKeepsOtherWrites ==
    [][/\ BoxUpdated => req'.failed = {}
       /\ UpdateBoxFailed =>
            LET b == req'.boxId
                failed == req'.failed
            IN  /\ measurements' = IF "Measurement.remove" \in failed
                                   THEN measurements
                                   ELSE RemoveMeasurements(measurements, req'.deleted)
                /\ DOMAIN boxes'[b].sensors =
                       IF "Box.update" \in failed
                       THEN DOMAIN boxes[b].sensors
                       ELSE DOMAIN boxes[b].sensors \ req'.deleted
                /\ boxes'[b].name = IF "box.save" \in failed
                                    THEN boxes[b].name ELSE req'.name]_vars

\* updateBox renaming box b1 and deleting its sensor s1 has answered 500
\* because box.save failed: the name is the old one, while the sensor and
\* its measurements are gone.
UpdateBoxAnsweredErrorAfterRemoval ==
    /\ pc = "done"
    /\ req.kind = "updateBox"
    /\ req.failed = {"box.save"}
    /\ responses = <<InternalServer>>
    /\ boxes["b1"].name = req.boxesBefore["b1"].name
    /\ "s1" \in DOMAIN req.boxesBefore["b1"].sensors
    /\ "s1" \notin DOMAIN boxes["b1"].sensors
    /\ \E m \in DOMAIN req.before : m.sensor_id = "s1"
    /\ \A m \in DOMAIN measurements : m.sensor_id # "s1"

====
